---- MODULE Spec2Model ----
(***************************************************************************)
(* Model of the Spark v2 content pipeline (src/spark_core.py, src/models.py)*)
(*                                                                         *)
(* Strings are sequences of tokens: "" is <<>>, concatenation is \o and    *)
(* ("Error" in s) is Contains(s, "Error").  The None of Python is the      *)
(* distinguished value None.  A collaborator (transcript API, yt-dlp,      *)
(* upload, generation, embedding) is modelled by the outcome of its call,  *)
(* drawn from a small set by the action that makes the call.               *)
(*                                                                         *)
(* src/spark_core.py line 213 carries "def find_related" indented one      *)
(* level too deep (inside the "if" of process_block) while its body sits   *)
(* at method level; the model reads it as the method SparkEngine.          *)
(* find_related that its callers (src/main.py:61, src/app.py:126) use.     *)
(***************************************************************************)
EXTENDS Integers, Sequences, FiniteSets, TLC

VARIABLES
    blocks,      \* the SmartBlock objects created so far, by object identity 1..Len(blocks)
    database,    \* SparkEngine.database: a list of references to SmartBlock objects
    op,          \* the last call made on the engine: its inputs, the collaborator
                 \* outcomes it consulted, whether it raised
    returned,    \* the value the last find_related call returned (<<>> otherwise)
    ncalls,      \* number of process_block calls made so far
    embed_failed,\* history: the blocks whose embedding request has failed at least once
    pb_call,     \* a process_block call in progress on another thread: where it stands
    fr_call      \* a find_related call in progress on another thread: its locals

vars == <<blocks, database, op, returned, ncalls, embed_failed, pb_call, fr_call>>

----------------------------------------------------------------------------
\* Bounds of the model
MaxBlocks == 1      \* SmartBlock objects created in a run of Spec
MaxCalls == 1       \* process_block calls in a run
MaxTopK == 2        \* find_related is called with top_k in 0..MaxTopK
MaxCorpus == 3      \* blocks of the sessions SpecRank starts from
MaxSession == 2     \* blocks of the sessions SpecCorpus starts from
MaxUserTags == 1    \* labels the caller appends to a block's user_tags
MaxParallel == 3    \* blocks of the sessions SpecPar starts from

----------------------------------------------------------------------------
\* Strings and None

None == <<"<None>">>

Contains(s, tok) == \E k \in 1..Len(s) : s[k] = tok

\* Python truthiness of an Optional[str], and of a list
Truthy(s) == s # None /\ s # <<>>
NonEmpty(list) == list # <<>>

NL == <<"<nl><nl>">>      \* the "\n\n" of line 197

\* JSON values as json.loads returns them: a list or a dict
JList(items) == [type |-> "list", items |-> items]
JDict(keys) == [type |-> "dict", items |-> keys]

NA == [kind |-> "n/a"]     \* the outcome of a collaborator the call did not consult

Idle == [pc |-> "idle"]    \* no call in progress on that thread

----------------------------------------------------------------------------
\* src/models.py

\* SmartBlock.__init__: uuid4 gives an id no other object has (the object's
\* own number here); created_at is the creation instant.
SmartBlock(n, source_type, raw_content, metadata) ==
    [ id                |-> n,
      created_at        |-> n,
      source_type       |-> source_type,
      raw_content       |-> raw_content,
      metadata          |-> metadata,
      processed_content |-> None,
      ai_tags           |-> JList(<<>>),
      user_tags         |-> <<>>,
      embedding         |-> <<>> ]

\* What the callers construct blocks from (src/main.py:15-30, src/app.py:60-79)
URL  == <<"https://www.", "youtube.com", "/watch?", "v=", "2zUak31UmZ0">>
TEXT == <<"pasted", "text">>
NoMeta == <<>>

BlockInputs ==
    { [source_type |-> "video_snippet",     raw_content |-> URL],
      [source_type |-> "video_snippet",     raw_content |-> TEXT],
      [source_type |-> "chat_log",          raw_content |-> TEXT],
      [source_type |-> "article_highlight", raw_content |-> TEXT] }

----------------------------------------------------------------------------
\* prompts.py (not in src/): the templates process_block interpolates.
\* A template is a sequence of literals and replacement fields.
Lit(t)   == [field |-> FALSE, text |-> t]
Field(k) == [field |-> TRUE,  text |-> k]

VIDEO_PROCESS_PROMPT == <<Lit("video notes instructions"), Field("text")>>
CHAT_PROCESS_PROMPT  == <<Lit("chat cleanup instructions"), Field("text")>>
TAGGING_PROMPT       == <<Lit("tagging instructions"), Field("content")>>
AUDIO_PROMPT         == <<Lit("listen to this audio and write detailed notes")>>

RECURSIVE Subst(_, _)
Subst(tpl, value) ==
    IF tpl = <<>> THEN <<>>
    ELSE (IF tpl[1].field THEN value ELSE <<tpl[1].text>>) \o Subst(Tail(tpl), value)

\* str.format(key=value): KeyError on a replacement field other than key
Format(tpl, key, value) ==
    IF \E k \in 1..Len(tpl) : tpl[k].field /\ tpl[k].text # key
    THEN [raised |-> TRUE,  text |-> <<>>]
    ELSE [raised |-> FALSE, text |-> Subst(tpl, value)]

----------------------------------------------------------------------------
\* Outcomes of the collaborators' calls

\* YouTubeTranscriptApi.get_transcript: the segments' text, or an exception
TranscriptOutcomes ==
    { [kind |-> "ok",    text  |-> <<"subtitle", "text">>],
      [kind |-> "raise", cause |-> <<"NoTranscriptFound">>] }

\* yt_dlp extract_info(download=True): the mp3 lands in /tmp, or an exception
DownloadOutcomes ==
    { [kind |-> "ok",    path  |-> <<"/tmp/", "2zUak31UmZ0", ".mp3">>],
      [kind |-> "raise", cause |-> <<"HTTP Error 403">>] }

\* genai.upload_file (and the PROCESSING wait): a file handle, or an exception
UploadOutcomes ==
    { [kind |-> "ok", file |-> "uploaded_file"],
      [kind |-> "raise"] }

\* model.generate_content(...).text for the note request
NoteTexts ==
    { <<"# Notes">>,
      <<"# Notes on", "Error", "handling">> }

GenOutcomes ==
    { [kind |-> "ok", text |-> t] : t \in NoteTexts }
    \cup { [kind |-> "raise", cause |-> <<"429 quota exceeded">>] }

\* model.generate_content(...).text for the tagging request
TagsArray  == "[\"#a\", \"#b\"]"
TagsObject == "{\"tags\": [\"#a\"]}"
FenceJson  == "<fence>json"    \* the opening code-fence marker with its language tag
Fence      == "<fence>"        \* the bare code-fence marker
WS         == "<nl>"

TagTexts ==
    { <<FenceJson, WS, TagsArray, WS, Fence>>,
      <<TagsObject>>,
      <<"Here are", "the tags:", "#a #b">> }

TagOutcomes ==
    { [kind |-> "ok", text |-> t] : t \in TagTexts }
    \cup { [kind |-> "raise", cause |-> <<"429 quota exceeded">>] }

\* genai.embed_content(...): the embedding entry of the result
Vectors == { <<1, 0>>, <<3, 4>>, <<0, 1>> }

EmbedOutcomes ==
    { [kind |-> "ok", embedding |-> v] : v \in Vectors }
    \cup { [kind |-> "raise"] }

----------------------------------------------------------------------------
\* Helpers of SparkEngine (src/spark_core.py)

\* _call_llm without its try/except: the exception of the service escapes
_call_llm_unguarded(gen) ==
    IF gen.kind = "ok"
    THEN [raised |-> FALSE, text |-> gen.text]
    ELSE [raised |-> TRUE, text |-> <<>>]

\* _call_llm: the generated text, or the exception turned into a string
_call_llm(gen) ==
    IF gen.kind = "ok"
    THEN [raised |-> FALSE, text |-> gen.text]
    ELSE [raised |-> FALSE, text |-> <<"Error", " processing AI: ">> \o gen.cause]

\* _download_youtube_audio: (path, None) or (None, error)
_download_youtube_audio(url, dl) ==
    IF dl.kind = "ok"
    THEN [path |-> dl.path, error |-> None]
    ELSE [path |-> None, error |-> <<"X audio download failed: ">> \o dl.cause]

\* _get_youtube_transcript: (text, None) or (None, error)
_get_youtube_transcript(url, tr) ==
    LET video_id == IF Contains(url, "v=") THEN <<"id">>
                    ELSE IF Contains(url, "youtu.be/") THEN <<"id">>
                    ELSE None
    IN  IF video_id = None
        THEN [text |-> None, error |-> <<"cannot parse Video ID">>]
        ELSE IF tr.kind = "ok"
        THEN [text |-> <<"[auto-fetched subtitles] ">> \o tr.text, error |-> None]
        ELSE [text |-> None, error |-> tr.cause]

\* _upload_audio returning a handle even when the upload failed
_upload_audio_unchecked(file_path_or_bytes, up) == "uploaded_file"

\* _upload_audio: the uploaded file, or None
_upload_audio(file_path_or_bytes, up) ==
    IF up.kind = "ok" THEN up.file ELSE "None"

\* _get_embedding answering a failure with a default vector instead of []
_get_embedding_default(text, emb) ==
    IF emb.kind = "ok"
    THEN [raised |-> FALSE, embedding |-> emb.embedding]
    ELSE [raised |-> FALSE, embedding |-> <<1, 0>>]

\* _get_embedding: the vector, or [] on any exception
_get_embedding(text, emb) ==
    IF emb.kind = "ok"
    THEN [raised |-> FALSE, embedding |-> emb.embedding]
    ELSE [raised |-> FALSE, embedding |-> <<>>]

----------------------------------------------------------------------------
\* json.loads on the cleaned tag text (lines 204-205)

\* str.replace(tok, ""): every occurrence of the fence marker goes
Replace(s, tok) == SelectSeq(s, LAMBDA t : t # tok)

RECURSIVE LStrip(_)
LStrip(s) == IF s # <<>> /\ s[1] = WS THEN LStrip(Tail(s)) ELSE s

RECURSIVE RStrip(_)
RStrip(s) == IF s # <<>> /\ s[Len(s)] = WS THEN RStrip(SubSeq(s, 1, Len(s) - 1)) ELSE s

Strip(s) == RStrip(LStrip(s))

\* json.loads: the value of a well-formed JSON text, JSONDecodeError otherwise
json_loads(s) ==
    IF s = <<TagsArray>>       THEN [raised |-> FALSE, value |-> JList(<<"#a", "#b">>)]
    ELSE IF s = <<TagsObject>> THEN [raised |-> FALSE, value |-> JDict(<<"tags">>)]
    ELSE [raised |-> TRUE, value |-> None]

----------------------------------------------------------------------------
\* SparkEngine.process_block (src/spark_core.py:138-211)

STATUS_CC    == <<"(from CC subtitles)">>              \* line 162
STATUS_PLANB == <<"(from AI dictation - Plan B)">>     \* line 178
PLACEHOLDER  == <<"(!) downloading the video audio, this may take 1-2 minutes, please wait...">>
ERR_USER_UPLOAD == <<"X user audio upload failed">>    \* line 151
ERR_UPLOAD      == <<"X download succeeded but upload to AI failed">>              \* line 176
ERR_DOWNLOAD    == <<"X subtitle fetch failed, and audio download failed too: ">>  \* line 180
TAG_ERROR == JList(<<"#AI_Tag_Error">>)                \* line 207

\* a process_block that files the generated tags under user_tags as well
Result_tags_to_user(block, db, calls, raised) ==
    [block |-> [block EXCEPT !.user_tags = block.ai_tags.items],
     database |-> db, calls |-> calls, raised |-> raised]

\* What a call of process_block leaves behind: the block as mutated, the
\* database, the collaborator calls made in order, and whether it raised.
Result(block, db, calls, raised) ==
    [block |-> block, database |-> db, calls |-> calls, raised |-> raised]

\* line 155
IsYoutubeVideo(block) ==
    /\ block.source_type = "video_snippet"
    /\ \/ Contains(block.raw_content, "youtube.com")
       \/ Contains(block.raw_content, "youtu.be")

\* a prompt preparation that raises (a template with a field nobody fills)
final_prompt_raising(block, audio_resource, prompt_text) ==
    [raised |-> TRUE, text |-> <<>>]

\* lines 184-191: the prompt sent to the generation service
final_prompt(block, audio_resource, prompt_text) ==
    IF block.source_type = "video_snippet"
    THEN IF audio_resource = "None"
         THEN Format(VIDEO_PROCESS_PROMPT, "text", prompt_text)
         ELSE [raised |-> FALSE, text |-> Subst(AUDIO_PROMPT, <<>>)]
    ELSE IF block.source_type = "chat_log"
    THEN Format(CHAT_PROCESS_PROMPT, "text", prompt_text)
    ELSE [raised |-> FALSE, text |-> prompt_text]

\* lines 201-207: the try block that sets ai_tags; its bare except catches
\* whatever is raised inside it
tagging(content, tag) ==
    LET tag_prompt == Format(TAGGING_PROMPT, "content", content)
    IN  IF tag_prompt.raised
        THEN [ai_tags |-> TAG_ERROR, calls |-> <<>>]
        ELSE LET tags_raw == _call_llm(tag)
             IN  IF tags_raw.raised
                 THEN [ai_tags |-> TAG_ERROR, calls |-> <<"_call_llm:tags">>]
                 ELSE LET clean_json == Strip(Replace(Replace(tags_raw.text, FenceJson), Fence))
                          parsed == json_loads(clean_json)
                      IN  [ai_tags |-> IF parsed.raised THEN TAG_ERROR ELSE parsed.value,
                           calls |-> <<"_call_llm:tags">>]

\* line 200: the test that lets a block through to tagging, embedding and append
IsSuccess(processed_content) ==
    Truthy(processed_content) /\ ~Contains(processed_content, "Error")

\* lines 183-211: prompt, generation, post-processing
generate_and_store(block, db, ref, audio_resource, prompt_text, status_msg, calls, gen, tag, emb) ==
    LET prompt == final_prompt(block, audio_resource, prompt_text)
    IN  IF prompt.raised THEN Result(block, db, calls, TRUE)
        ELSE
        LET result == _call_llm(gen)
            calls1 == Append(calls, "_call_llm:note")
        IN  IF result.raised THEN Result(block, db, calls1, TRUE)
            ELSE
            LET b1 == [block EXCEPT !.processed_content = status_msg \o NL \o result.text]
            IN  IF IsSuccess(b1.processed_content)
                THEN LET t  == tagging(b1.processed_content, tag)
                         b2 == [b1 EXCEPT !.ai_tags = t.ai_tags]
                         e  == _get_embedding(b2.processed_content, emb)
                         calls2 == Append(calls1 \o t.calls, "_get_embedding")
                     IN  IF e.raised THEN Result(b2, db, calls2, TRUE)
                         ELSE Result([b2 EXCEPT !.embedding = e.embedding],
                                     Append(db, ref), calls2, FALSE)
                ELSE Result(b1, db, calls1, FALSE)

\* the whole method; ref is the reference to the block object that append stores
process_block(block, db, ref, file_bytes, tr, dl, up, gen, tag, emb) ==
    IF file_bytes
    THEN LET audio_resource == _upload_audio("bytes", up)
         IN  IF audio_resource = "None"
             THEN Result([block EXCEPT !.processed_content = ERR_USER_UPLOAD],
                         db, <<"_upload_audio">>, FALSE)
             ELSE generate_and_store(block, db, ref, audio_resource, block.raw_content,
                                     <<>>, <<"_upload_audio">>, gen, tag, emb)
    ELSE IF IsYoutubeVideo(block)
    THEN LET t == _get_youtube_transcript(block.raw_content, tr)
         IN  IF Truthy(t.text)
             THEN generate_and_store(block, db, ref, "None", t.text, STATUS_CC,
                                     <<"_get_youtube_transcript">>, gen, tag, emb)
             ELSE
             LET b1 == [block EXCEPT !.processed_content = PLACEHOLDER]
                 d  == _download_youtube_audio(block.raw_content, dl)
                 calls1 == <<"_get_youtube_transcript", "_download_youtube_audio">>
             IN  IF Truthy(d.path)
                 THEN LET audio_resource == _upload_audio(d.path, up)
                          calls2 == Append(calls1, "_upload_audio")
                      IN  IF audio_resource = "None"
                          THEN Result([b1 EXCEPT !.processed_content = ERR_UPLOAD],
                                      db, calls2, FALSE)
                          ELSE generate_and_store(b1, db, ref, audio_resource,
                                                  block.raw_content, STATUS_PLANB,
                                                  calls2, gen, tag, emb)
                 ELSE Result([b1 EXCEPT !.processed_content = ERR_DOWNLOAD \o d.error],
                             db, calls1, FALSE)
    ELSE generate_and_store(block, db, ref, "None", block.raw_content, <<>>, <<>>,
                            gen, tag, emb)

----------------------------------------------------------------------------
\* SparkEngine.find_related (src/spark_core.py:213-247)

RECURSIVE Dot(_, _)
Dot(a, b) == IF a = <<>> \/ b = <<>> THEN 0 ELSE a[1] * b[1] + Dot(Tail(a), Tail(b))

\* sklearn cosine_similarity of two rows: dot / (|a| |b|), kept exact as the
\* pair (num, den2) standing for num / sqrt(den2); a zero row gives 0.
cosine_similarity(a, b) ==
    IF Dot(a, a) * Dot(b, b) = 0
    THEN [num |-> 0, den2 |-> 1]
    ELSE [num |-> Dot(a, b), den2 |-> Dot(a, a) * Dot(b, b)]

Sgn(x) == IF x > 0 THEN 1 ELSE IF x < 0 THEN -1 ELSE 0

\* s < t and s = t on scores
ScoreLess(s, t) ==
    Sgn(s.num) * s.num * s.num * t.den2 < Sgn(t.num) * t.num * t.num * s.den2
ScoreEq(s, t) == ~ScoreLess(s, t) /\ ~ScoreLess(t, s)

\* line 244: score > 0.3
AboveThreshold(s) == s.num > 0 /\ 100 * s.num * s.num > 9 * s.den2

\* db_blocks without the test on the id: the target stays among the candidates
db_blocks_with_target(bs, db, target_block) ==
    SelectSeq(db, LAMBDA r : NonEmpty(bs[r].embedding))

\* lines 223-224: the corpus entries other than the target that have an embedding
db_blocks(bs, db, target_block) ==
    SelectSeq(db, LAMBDA r : bs[r].id # target_block.id /\ NonEmpty(bs[r].embedding))

\* line 236
similarities(bs, db, target_block) ==
    LET cand == db_blocks(bs, db, target_block)
    IN  [k \in 1..Len(cand) |-> cosine_similarity(target_block.embedding, bs[cand[k]].embedding)]

\* numpy argsort (default kind, not stable): every ordering of the indices
\* that is ascending in the values; equal values may come in any order.
RECURSIVE Ascending(_, _)
Ascending(sim, idx) ==
    IF idx = {} THEN {<<>>}
    ELSE UNION { { <<m>> \o rest : rest \in Ascending(sim, idx \ {m}) } :
                 m \in { i \in idx : \A j \in idx : ~ScoreLess(sim[j], sim[i]) } }

argsort(sim) == Ascending(sim, DOMAIN sim)

\* a[:top_k] in the place of a[-top_k:]: the first top_k entries
FirstK(a, top_k) ==
    IF top_k >= Len(a) THEN a ELSE SubSeq(a, 1, top_k)

\* a[-top_k:] for top_k >= 0: the last top_k entries, and the whole of a
\* when top_k is 0 (a[-0:] is a[0:]) or exceeds its length
LastK(a, top_k) ==
    IF top_k = 0 \/ top_k >= Len(a) THEN a
    ELSE SubSeq(a, Len(a) - top_k + 1, Len(a))

Reverse(a) == [k \in 1..Len(a) |-> a[Len(a) + 1 - k]]

\* what `returned` holds when a find_related call raised instead of returning
RAISED == <<[block |-> 0, score |-> [num |-> 0, den2 |-> 1]]>>

\* find_related without the test of line 219: an empty corpus still gives []
\* at line 227, an empty target vector reaches cosine_similarity, which
\* rejects rows of different widths with a ValueError
find_related_unguarded(bs, db, target_block, top_k, order) ==
    LET cand == db_blocks(bs, db, target_block)
    IN  IF cand = <<>> THEN <<>>
        ELSE IF ~NonEmpty(target_block.embedding) THEN RAISED
        ELSE
        LET sim == similarities(bs, db, target_block)
            top_indices == Reverse(LastK(order, top_k))
            pairs == [k \in 1..Len(top_indices) |->
                         [block |-> cand[top_indices[k]], score |-> sim[top_indices[k]]]]
        IN  SelectSeq(pairs, LAMBDA p : AboveThreshold(p.score))

\* the whole method, for one outcome `order` of argsort
find_related(bs, db, target_block, top_k, order) ==
    IF ~NonEmpty(target_block.embedding) \/ ~NonEmpty(db) THEN <<>>
    ELSE
    LET cand == db_blocks(bs, db, target_block)
    IN  IF cand = <<>> THEN <<>>
        ELSE
        LET sim == similarities(bs, db, target_block)
            top_indices == Reverse(LastK(order, top_k))
            pairs == [k \in 1..Len(top_indices) |->
                         [block |-> cand[top_indices[k]], score |-> sim[top_indices[k]]]]
        IN  SelectSeq(pairs, LAMBDA p : AboveThreshold(p.score))

----------------------------------------------------------------------------
\* The engine as a state machine

\* the record of the last call
Op(name, block, top_k, file_bytes, tr, dl, up, gen, tag, emb, calls, raised) ==
    [name |-> name, block |-> block, top_k |-> top_k, file_bytes |-> file_bytes,
     tr |-> tr, dl |-> dl, up |-> up, gen |-> gen, tag |-> tag, emb |-> emb,
     calls |-> calls, raised |-> raised]

NoOp(name, block, top_k) ==
    Op(name, block, top_k, FALSE, NA, NA, NA, NA, NA, NA, <<>>, FALSE)

\* SparkEngine.__init__ (line 26): an empty database
Init ==
    /\ blocks = <<>>
    /\ database = <<>>
    /\ op = NoOp("__init__", 0, 0)
    /\ returned = <<>>
    /\ ncalls = 0
    /\ embed_failed = {}
    /\ pb_call = Idle
    /\ fr_call = Idle

\* The caller constructs a block (src/app.py:79, src/main.py:15-30)
CreateBlock ==
    /\ Len(blocks) < MaxBlocks
    /\ \E inp \in BlockInputs :
          blocks' = Append(blocks,
                           SmartBlock(Len(blocks) + 1, inp.source_type, inp.raw_content, NoMeta))
    /\ op' = NoOp("SmartBlock", Len(blocks) + 1, 0)
    /\ returned' = <<>>
    /\ UNCHANGED <<database, ncalls, embed_failed, pb_call, fr_call>>

\* An outcome is drawn for a collaborator only when the call consults it:
\* Consulted runs process_block with the outcomes fixed so far and any
\* outcome for the rest, and looks for the collaborator among the calls made.
AnyTranscript == CHOOSE x \in TranscriptOutcomes : TRUE
AnyDownload   == CHOOSE x \in DownloadOutcomes : TRUE
AnyUpload     == CHOOSE x \in UploadOutcomes : TRUE
AnyGen        == CHOOSE x \in GenOutcomes : TRUE
AnyTag        == CHOOSE x \in TagOutcomes : TRUE
AnyEmbed      == CHOOSE x \in EmbedOutcomes : TRUE
Fill(x, any) == IF x = NA THEN any ELSE x

Run(ref, file_bytes, tr, dl, up, gen, tag, emb) ==
    process_block(blocks[ref], database, ref, file_bytes,
                  Fill(tr, AnyTranscript), Fill(dl, AnyDownload),
                  Fill(up, AnyUpload), Fill(gen, AnyGen),
                  Fill(tag, AnyTag), Fill(emb, AnyEmbed))

Consulted(callee, S, r) == IF Contains(r.calls, callee) THEN S ELSE {NA}

\* engine.process_block(block, file_bytes), the transcript API answering with
\* an outcome of T and the generation service answering the note request
\* with an outcome of G.  The call runs to its end in one
\* step when atomic; otherwise it stops before the append of line 210, which
\* is left to a later step of its thread.
ProcessCall(T, G, atomic) ==
    /\ ncalls < MaxCalls
    /\ pb_call = Idle
    /\ \E ref \in 1..Len(blocks), file_bytes \in BOOLEAN :
       \E tr \in Consulted("_get_youtube_transcript", T,
                           Run(ref, file_bytes, NA, NA, NA, NA, NA, NA)) :
       \E dl \in Consulted("_download_youtube_audio", DownloadOutcomes,
                           Run(ref, file_bytes, tr, NA, NA, NA, NA, NA)) :
       \E up \in Consulted("_upload_audio", UploadOutcomes,
                           Run(ref, file_bytes, tr, dl, NA, NA, NA, NA)) :
       \E gen \in Consulted("_call_llm:note", G,
                            Run(ref, file_bytes, tr, dl, up, NA, NA, NA)) :
       \E tag \in Consulted("_call_llm:tags", TagOutcomes,
                            Run(ref, file_bytes, tr, dl, up, gen, NA, NA)) :
       \E emb \in Consulted("_get_embedding", EmbedOutcomes,
                            Run(ref, file_bytes, tr, dl, up, gen, tag, NA)) :
          LET r == Run(ref, file_bytes, tr, dl, up, gen, tag, emb)
          IN  /\ blocks' = [blocks EXCEPT ![ref] = r.block]
              /\ database' = IF atomic THEN r.database ELSE database
              /\ pb_call' = IF atomic \/ r.database = database THEN Idle
                            ELSE [pc |-> "append", block |-> ref]
              /\ op' = Op("process_block", ref, 0, file_bytes, tr, dl, up, gen, tag, emb,
                          r.calls, r.raised)
              /\ embed_failed' = IF emb.kind = "raise" THEN embed_failed \cup {ref}
                                 ELSE embed_failed
    /\ returned' = <<>>
    /\ ncalls' = ncalls + 1
    /\ UNCHANGED fr_call

ProcessBlock == ProcessCall(TranscriptOutcomes, GenOutcomes, TRUE)

\* engine.find_related(target_block, top_k)
FindRelated ==
    /\ \E target \in 1..Len(blocks), top_k \in 0..MaxTopK :
       \E order \in argsort(similarities(blocks, database, blocks[target])) :
          /\ returned' = find_related(blocks, database, blocks[target], top_k, order)
          /\ op' = NoOp("find_related", target, top_k)
    /\ UNCHANGED <<blocks, database, ncalls, embed_failed, pb_call, fr_call>>

Next == CreateBlock \/ ProcessBlock \/ FindRelated

Spec == Init /\ [][Next]_vars

----------------------------------------------------------------------------
\* Sessions already under way.  A block of such a session is a YouTube video
\* block that is either fresh (created, never processed) or has been through
\* one process_block call in which the transcript fetch, generation and
\* tagging went well and the embedding request had the outcome st[n]; the
\* blocks were processed in the order of their creation.  The state is
\* computed by running process_block, so it is one the actions of Spec build.

FreshBlock(n) == SmartBlock(n, "video_snippet", URL, NoMeta)

GoodTranscript == [kind |-> "ok", text |-> <<"subtitle", "text">>]
GoodGen == [kind |-> "ok", text |-> <<"# Notes">>]
GoodTag == [kind |-> "ok", text |-> <<FenceJson, WS, TagsArray, WS, Fence>>]
IsFresh == [kind |-> "fresh"]

RECURSIVE SessionAfter(_, _)
\* the blocks and database after the first n blocks of the session st
SessionAfter(st, n) ==
    IF n = 0 THEN [blocks |-> <<>>, database |-> <<>>]
    ELSE LET prev == SessionAfter(st, n - 1)
         IN  IF st[n] = IsFresh
             THEN [blocks |-> Append(prev.blocks, FreshBlock(n)), database |-> prev.database]
             ELSE LET r == process_block(FreshBlock(n), prev.database, n, FALSE,
                                         GoodTranscript, NA, NA, GoodGen, GoodTag, st[n])
                  IN  [blocks |-> Append(prev.blocks, r.block), database |-> r.database]

InitSession(maxBlocks, callsLeft, states) ==
    \E n \in 1..maxBlocks :
    \E st \in [1..n -> states] :
       /\ blocks = SessionAfter(st, n).blocks
       /\ database = SessionAfter(st, n).database
       /\ op = NoOp("__init__", 0, 0)
       /\ returned = <<>>
       /\ ncalls = MaxCalls - callsLeft
       /\ embed_failed = { i \in 1..n : st[i].kind = "raise" }
       /\ pb_call = Idle
       /\ fr_call = Idle

\* find_related alone, over every session of up to MaxCorpus blocks
InitRank == InitSession(MaxCorpus, 0, {IsFresh} \cup EmbedOutcomes)
NextRank == FindRelated
SpecRank == InitRank /\ [][NextRank]_vars

\* one more process_block call, and find_related, in a session of up to
\* MaxSession blocks, each of them processed before
InitCorpus == InitSession(MaxSession, 1, EmbedOutcomes)
NextCorpus == ProcessBlock \/ FindRelated
SpecCorpus == InitCorpus /\ [][NextCorpus]_vars

----------------------------------------------------------------------------
\* Vocabulary of the properties

InCorpus(ref) == \E k \in 1..Len(database) : database[k] = ref

\* the diagnostic _call_llm makes of a failed generation
GenerationError(pc) ==
    \E k \in 1..(Len(pc) - 1) : pc[k] = "Error" /\ pc[k + 1] = " processing AI: "

\* the diagnostics of lines 151, 176 and 180
AcquisitionError(pc) ==
    pc # <<>> /\ pc[1] \in {ERR_USER_UPLOAD[1], ERR_UPLOAD[1], ERR_DOWNLOAD[1]}

IsErrorString(pc) == pc # None /\ (GenerationError(pc) \/ AcquisitionError(pc))

\* processed_content is the text the generation returned, behind its provenance prefix
HoldsNote(pc, text) ==
    \E status \in {<<>>, STATUS_CC, STATUS_PLANB} : pc = status \o NL \o text

Processed == op.name = "process_block"
Linked == op.name = "find_related"
TheBlock == blocks[op.block]

\* the calls to the Generation Service for the note, and to the embedding service
NoGenerationCall == ~Contains(op.calls, "_call_llm:note")
NoEmbeddingCall == ~Contains(op.calls, "_get_embedding")

----------------------------------------------------------------------------
\* C1: every block held in the Corpus Store has processed_content set to
\* non-error content and a non-empty embedding.
CorpusMembership ==
    \A k \in 1..Len(database) :
        LET b == blocks[database[k]]
        IN  /\ b.processed_content # None
            /\ ~IsErrorString(b.processed_content)
            /\ NonEmpty(b.embedding)

GenerationFailureIsTerminal ==
    (Processed /\ op.gen.kind = "raise") =>
        /\ IsErrorString(TheBlock.processed_content)
        /\ TheBlock.ai_tags = JList(<<>>)
        /\ TheBlock.embedding = <<>>
        /\ NoEmbeddingCall
        /\ ~InCorpus(op.block)

\* C5: when generation returns a note and no embedding request fails, the
\* block is in the corpus, processed_content holds the note and embedding is
\* non-empty, whatever the text of the note.
SuccessIsCommitted ==
    (Processed /\ op.gen.kind = "ok" /\ op.emb.kind # "raise") =>
        /\ InCorpus(op.block)
        /\ HoldsNote(TheBlock.processed_content, op.gen.text)
        /\ NonEmpty(TheBlock.embedding)

\* the tag text, cleaned as lines 204-205 clean it, is a JSON array
ParsesAsJsonArray(text) ==
    LET parsed == json_loads(Strip(Replace(Replace(text, FenceJson), Fence)))
    IN  ~parsed.raised /\ parsed.value.type = "list"

\* C6: when the tag text cannot be parsed as a JSON array, processed_content
\* keeps the note, ai_tags is exactly the tag-parse-error sentinel and the
\* embedding request is still issued.
TagParseFailureKeepsNote ==
    (Processed /\ op.tag # NA /\ ~ParsesAsJsonArray(_call_llm(op.tag).text)) =>
        /\ HoldsNote(TheBlock.processed_content, op.gen.text)
        /\ TheBlock.ai_tags = TAG_ERROR
        /\ ~NoEmbeddingCall

\* when the embedding request of a call fails, embedding is empty and
\* processed_content keeps the note
EmbeddingFailureKeepsNote ==
    (Processed /\ op.emb.kind = "raise") =>
        /\ TheBlock.embedding = <<>>
        /\ HoldsNote(TheBlock.processed_content, op.gen.text)

\* C7 as claimed: an embedding failure leaves embedding empty and the note in
\* place, and from then on no find_related call returns that block.
EmbeddingFailureExcludesForever ==
    /\ EmbeddingFailureKeepsNote
    /\ \A k \in 1..Len(returned) : returned[k].block \notin embed_failed

\* C7 amended: an embedding failure leaves embedding empty and the note in
\* place, and no find_related call returns that block for as long as its
\* embedding is empty (a later process_block call on it may fill it).
EmbeddingFailureExcludesWhileEmpty ==
    /\ EmbeddingFailureKeepsNote
    /\ \A k \in 1..Len(returned) :
          returned[k].block \in embed_failed => NonEmpty(blocks[returned[k].block].embedding)

\* find_related ran for a target with an embedding while the corpus held
\* another block whose embedding request had failed
EmbeddingFailureWitness ==
    /\ Linked
    /\ NonEmpty(TheBlock.embedding)
    /\ \E b \in embed_failed :
          b # op.block /\ InCorpus(b) /\ blocks[b].embedding = <<>>

\* C8: the result of find_related is sorted by descending score, holds only
\* scores above 0.3 and has at most top_k entries, for every top_k >= 0.
RankedResult ==
    Linked =>
        /\ \A i, j \in 1..Len(returned) :
              i < j => ~ScoreLess(returned[i].score, returned[j].score)
        /\ \A k \in 1..Len(returned) : AboveThreshold(returned[k].score)
        /\ Len(returned) <= op.top_k

\* position of a block in the corpus: its first insertion
Position(ref) == CHOOSE k \in 1..Len(database) :
                    database[k] = ref /\ \A j \in 1..(k - 1) : database[j] # ref

\* C9: among candidates of equal similarity the earlier-inserted block comes
\* first in the result, and when a tie straddles the top_k cut the
\* earlier-inserted blocks are the ones kept (stated for top_k >= 1, where
\* the cut is the one the caller asked for).
TieBreakByInsertion ==
    (Linked /\ op.top_k >= 1) =>
        LET cand == db_blocks(blocks, database, TheBlock)
            score(ref) == cosine_similarity(TheBlock.embedding, blocks[ref].embedding)
            kept == { returned[k].block : k \in 1..Len(returned) }
        IN  /\ \A i, j \in 1..Len(returned) :
                  (i < j /\ ScoreEq(returned[i].score, returned[j].score))
                      => Position(returned[i].block) <= Position(returned[j].block)
            /\ \A k \in 1..Len(cand) : \A r \in kept :
                  (cand[k] \notin kept /\ ScoreEq(score(cand[k]), score(r)))
                      => Position(r) < Position(cand[k])

\* C10: no two entries of the corpus have the same id.
UniqueIds ==
    \A i, j \in 1..Len(database) :
        i # j => blocks[database[i]].id # blocks[database[j]].id

----------------------------------------------------------------------------
\* Responses of the generation service that follow the combined-prompt
\* protocol of the specification: a note body, the delimiter token and a
\* JSON array of tags (bare or inside a code fence), and one without the
\* delimiter.  They are texts model.generate_content may return like any other.

DELIMITER == "TagsJSON:"

ResponseTexts ==
    { <<"Note body here", DELIMITER, TagsArray>>,
      <<"Note body here", DELIMITER, FenceJson, WS, TagsArray, WS, Fence>>,
      <<"Note body here">> }

ResponseOutcomes == { [kind |-> "ok", text |-> t] : t \in ResponseTexts }

\* process_block on a block just constructed, the note request answered by
\* one of these responses
ProcessResponse == ProcessCall(TranscriptOutcomes, ResponseOutcomes, TRUE)

NextResponse == CreateBlock \/ ProcessResponse
SpecResponse == Init /\ [][NextResponse]_vars

\* text.split(DELIMITER, 1): what precedes the first delimiter, what follows it
FirstDelimiter(text) == CHOOSE k \in 1..Len(text) :
                           text[k] = DELIMITER /\ \A j \in 1..(k - 1) : text[j] # DELIMITER
Prefix(text) == SubSeq(text, 1, FirstDelimiter(text) - 1)
Suffix(text) == SubSeq(text, FirstDelimiter(text) + 1, Len(text))

\* C11: a response holding the delimiter is split once on it: the prefix is
\* the note stored in processed_content (behind the provenance prefix) and
\* the suffix, code-fence markers stripped, is parsed as the JSON array that
\* becomes ai_tags.
DelimiterSplitsResponse ==
    (Processed /\ op.gen.kind = "ok" /\ Contains(op.gen.text, DELIMITER)) =>
        /\ HoldsNote(TheBlock.processed_content, Prefix(op.gen.text))
        /\ ParsesAsJsonArray(Suffix(op.gen.text))
        /\ TheBlock.ai_tags =
               json_loads(Strip(Replace(Replace(Suffix(op.gen.text), FenceJson), Fence))).value

\* C12: a response without the delimiter is stored whole as processed_content
\* and ai_tags stays the empty sequence.
NoDelimiterLeavesTagsEmpty ==
    (Processed /\ op.gen.kind = "ok" /\ ~Contains(op.gen.text, DELIMITER)) =>
        /\ HoldsNote(TheBlock.processed_content, op.gen.text)
        /\ TheBlock.ai_tags = JList(<<>>)

----------------------------------------------------------------------------
\* C13: when the target has no embedding or the corpus is empty,
\* find_related returns the empty sequence (and does not raise), whatever
\* top_k is.
EmptyInputsGiveEmptyResult ==
    (Linked /\ (TheBlock.embedding = <<>> \/ database = <<>>)) => returned = <<>>

\* find_related ran for a target without an embedding over a corpus that
\* holds a candidate with one
EmptyTargetWitness ==
    /\ Linked
    /\ op.top_k >= 1
    /\ TheBlock.embedding = <<>>
    /\ db_blocks(blocks, database, TheBlock) # <<>>

\* C14: no block find_related returns has the id of the target, and every
\* block it returns is in the Corpus Store.
OnlyOtherCorpusMembers ==
    Linked =>
        \A k \in 1..Len(returned) :
            /\ returned[k].block \in 1..Len(blocks)
            /\ blocks[returned[k].block].id # TheBlock.id
            /\ InCorpus(returned[k].block)

\* find_related returned something for a target that is itself in the corpus
\* while some block was outside the corpus
OnlyOtherCorpusMembersWitness ==
    /\ Linked
    /\ returned # <<>>
    /\ InCorpus(op.block)
    /\ \E b \in 1..Len(blocks) : ~InCorpus(b)

----------------------------------------------------------------------------
\* A block with metadata and user tags.  The front end passes the URL and
\* the optional time range as metadata (src/app.py:66-68); the caller
\* appends labels to user_tags at any time (src/main.py:55).

MetaInputs ==
    { NoMeta,
      <<[key |-> "url", value |-> URL]>>,
      <<[key |-> "url", value |-> URL],
        [key |-> "start_min", value |-> 0], [key |-> "end_min", value |-> 10]>> }

InitFrame ==
    /\ \E inp \in BlockInputs, meta \in MetaInputs :
          blocks = <<SmartBlock(1, inp.source_type, inp.raw_content, meta)>>
    /\ database = <<>>
    /\ op = NoOp("SmartBlock", 1, 0)
    /\ returned = <<>>
    /\ ncalls = 0
    /\ embed_failed = {}
    /\ pb_call = Idle
    /\ fr_call = Idle

\* block.user_tags.append(label)
AddUserTag ==
    /\ \E ref \in 1..Len(blocks) :
          /\ Len(blocks[ref].user_tags) < MaxUserTags
          /\ blocks' = [blocks EXCEPT ![ref].user_tags = Append(@, "#Project-Politics")]
          /\ op' = NoOp("user_tags.append", ref, 0)
    /\ returned' = <<>>
    /\ UNCHANGED <<database, ncalls, embed_failed, pb_call, fr_call>>

NextFrame == AddUserTag \/ ProcessBlock \/ FindRelated
SpecFrame == InitFrame /\ [][NextFrame]_vars

\* C15: a process_block call, on every path, leaves user_tags, metadata, id,
\* created_at and source_type of its block as they were and touches no other
\* block; a find_related call changes no field of any block and leaves the
\* corpus as it was.
FrameOfCalls ==
    [][ /\ Processed' =>
              /\ Len(blocks') = Len(blocks)
              /\ \A r \in 1..Len(blocks) :
                    IF r = op'.block
                    THEN /\ blocks'[r].user_tags = blocks[r].user_tags
                         /\ blocks'[r].metadata = blocks[r].metadata
                         /\ blocks'[r].id = blocks[r].id
                         /\ blocks'[r].created_at = blocks[r].created_at
                         /\ blocks'[r].source_type = blocks[r].source_type
                    ELSE blocks'[r] = blocks[r]
        /\ Linked' => (blocks' = blocks /\ database' = database) ]_vars

\* process_block succeeded on a block that carried metadata and a user tag
FrameWitness ==
    /\ Processed
    /\ InCorpus(op.block)
    /\ TheBlock.user_tags # <<>>
    /\ TheBlock.metadata # NoMeta
    /\ TheBlock.ai_tags # JList(<<>>)

----------------------------------------------------------------------------
\* the requests a process_block call sent to the Generation Service
GenerationRequests ==
    { k \in 1..Len(op.calls) : op.calls[k] \in {"_call_llm:note", "_call_llm:tags"} }

\* C16: a process_block call sends at most one request to the Generation
\* Service, and never a separate tagging request.
SingleGenerationRequest ==
    Processed =>
        /\ Cardinality(GenerationRequests) <= 1
        /\ ~Contains(op.calls, "_call_llm:tags")

\* C20: when process_block has returned, processed_content is a string (not
\* None) and is not the placeholder written while the audio fallback runs.
FinalContentIsSet ==
    Processed =>
        /\ TheBlock.processed_content # None
        /\ TheBlock.processed_content # PLACEHOLDER

\* the audio fallback ran (the placeholder was written) and the call went on
\* to store the note generated from the audio
FinalContentWitness ==
    /\ Processed
    /\ Contains(op.calls, "_download_youtube_audio")
    /\ op.gen.kind = "ok"
    /\ TheBlock.processed_content = STATUS_PLANB \o NL \o op.gen.text

----------------------------------------------------------------------------
\* every sequence a find_related call may return, over the outcomes of argsort
find_related_results(bs, db, target_block, top_k) ==
    { find_related(bs, db, target_block, top_k, order) :
          order \in argsort(similarities(bs, db, target_block)) }

\* The other order of the two last stages: drop the scores not above the
\* threshold first, then take the top_k of what is left by the same
\* argsort / [-top_k:] / [::-1] steps.  Every sequence this may give.
threshold_then_truncate(bs, db, target_block, top_k) ==
    IF ~NonEmpty(target_block.embedding) \/ ~NonEmpty(db) THEN {<<>>}
    ELSE
    LET cand == db_blocks(bs, db, target_block)
    IN  IF cand = <<>> THEN {<<>>}
        ELSE
        LET sim == similarities(bs, db, target_block)
            keep == SelectSeq([k \in 1..Len(cand) |-> k], LAMBDA k : AboveThreshold(sim[k]))
            kept_sim == [k \in 1..Len(keep) |-> sim[keep[k]]]
        IN  { LET top_indices == Reverse(LastK(order, top_k))
              IN  [k \in 1..Len(top_indices) |->
                      [block |-> cand[keep[top_indices[k]]], score |-> kept_sim[top_indices[k]]]] :
              order \in argsort(kept_sim) }

\* C19: for top_k >= 1, truncating to the top_k and then dropping the scores
\* not above 0.3 gives the same sequences of blocks and scores as dropping
\* first and truncating after.
TruncationOrderUnobservable ==
    (Linked /\ op.top_k >= 1) =>
        /\ returned \in threshold_then_truncate(blocks, database, TheBlock, op.top_k)
        /\ find_related_results(blocks, database, TheBlock, op.top_k)
               = threshold_then_truncate(blocks, database, TheBlock, op.top_k)

\* find_related cut the candidates to top_k while one of them was under the
\* threshold and another above it
TruncationOrderWitness ==
    /\ Linked
    /\ op.top_k >= 1
    /\ returned # <<>>
    /\ LET sim == similarities(blocks, database, TheBlock)
       IN  /\ Len(sim) > op.top_k
           /\ \E k \in 1..Len(sim) : ~AboveThreshold(sim[k])

----------------------------------------------------------------------------
\* Transcripts by segment.  get_transcript returns a list of segments, each
\* with its text and its start offset in seconds (line 90); line 91 joins
\* their texts.  The front end passes the time range in minutes as
\* metadata start_min / end_min (src/app.py:66-68).

SegmentStarts == {0, 240, 600, 660}

Segment(start) == [start |-> start, text |-> <<"seg", start>>]

\* the segments of a video, in the order of their start offsets
RECURSIVE SegmentsOf(_)
SegmentsOf(starts) ==
    IF starts = {} THEN <<>>
    ELSE LET first == CHOOSE x \in starts : \A y \in starts : x <= y
         IN  <<Segment(first)>> \o SegmentsOf(starts \ {first})

\* line 91: " ".join([t['text'] for t in transcript_list])
RECURSIVE full_text(_)
full_text(transcript_list) ==
    IF transcript_list = <<>> THEN <<>>
    ELSE <<transcript_list[1].text>> \o full_text(Tail(transcript_list))

SegmentOutcomes ==
    { [kind |-> "ok", segments |-> SegmentsOf(starts), text |-> full_text(SegmentsOf(starts))] :
          starts \in SUBSET SegmentStarts }

TimeRange(start_min, end_min) ==
    <<[key |-> "url", value |-> URL],
      [key |-> "start_min", value |-> start_min], [key |-> "end_min", value |-> end_min]>>

TimeRangeInputs ==
    { <<[key |-> "url", value |-> URL]>>, TimeRange(0, 10), TimeRange(5, 10), TimeRange(5, 5) }

\* metadata.get(key)
HasKey(metadata, key) == \E k \in 1..Len(metadata) : metadata[k].key = key
Get(metadata, key) == metadata[CHOOSE k \in 1..Len(metadata) : metadata[k].key = key].value

InitTranscript ==
    /\ \E meta \in TimeRangeInputs : blocks = <<SmartBlock(1, "video_snippet", URL, meta)>>
    /\ database = <<>>
    /\ op = NoOp("SmartBlock", 1, 0)
    /\ returned = <<>>
    /\ ncalls = 0
    /\ embed_failed = {}
    /\ pb_call = Idle
    /\ fr_call = Idle

\* process_block on a YouTube block, the transcript API returning segments
ProcessTranscript == ProcessCall(SegmentOutcomes, {GoodGen}, TRUE)

NextTranscript == ProcessTranscript
SpecTranscript == InitTranscript /\ [][NextTranscript]_vars

\* the segments the time range start_min..end_min (minutes) selects: those
\* starting at or after the start bound, up to the first one that starts
\* after the end bound
RECURSIVE Bounded(_, _, _)
Bounded(segs, start_min, end_min) ==
    IF segs = <<>> THEN <<>>
    ELSE IF segs[1].start > end_min * 60 THEN <<>>
    ELSE (IF segs[1].start >= start_min * 60 THEN <<segs[1]>> ELSE <<>>)
             \o Bounded(Tail(segs), start_min, end_min)

\* C18: the transcript text a block is resolved to holds exactly the
\* segments its metadata start_min / end_min select, and every segment when
\* the metadata carries no bounds.
TranscriptBoundsHonoured ==
    (Processed /\ op.tr.kind = "ok") =>
        LET meta == TheBlock.metadata
            wanted == IF HasKey(meta, "start_min") /\ HasKey(meta, "end_min")
                      THEN Bounded(op.tr.segments, Get(meta, "start_min"), Get(meta, "end_min"))
                      ELSE op.tr.segments
        IN  Tail(_get_youtube_transcript(TheBlock.raw_content, op.tr).text) = full_text(wanted)

----------------------------------------------------------------------------
\* process_block and find_related on two threads.  Nothing in the engine
\* locks self.database or the blocks, so the steps of the two calls
\* interleave.  find_related reads the corpus twice, at line 223 (the
\* embeddings) and at line 224 (the blocks); process_block writes what
\* find_related reads at line 209 (block.embedding) and at line 210 (the
\* append).  The steps below are cut at those lines; list.append is one step.

\* lines 223, 224: the two list comprehensions over self.database
db_embeddings(bs, db, target_block) ==
    LET cand == db_blocks(bs, db, target_block)
    IN  [k \in 1..Len(cand) |-> bs[cand[k]].embedding]

\* lines 226-247 on the locals of the call, for one outcome `order` of
\* argsort: cosine_similarity rejects an empty target vector, and
\* db_blocks[idx] raises IndexError when db_blocks is shorter than db_embeddings
rank_candidates(target_embedding, embeddings, cand, top_k, order) ==
    IF embeddings = <<>> THEN <<>>
    ELSE IF ~NonEmpty(target_embedding) THEN RAISED
    ELSE
    LET sim == [k \in 1..Len(embeddings) |-> cosine_similarity(target_embedding, embeddings[k])]
        top_indices == Reverse(LastK(order, top_k))
        above == SelectSeq(top_indices, LAMBDA idx : AboveThreshold(sim[idx]))
    IN  IF \E k \in 1..Len(above) : above[k] > Len(cand) THEN RAISED
        ELSE [k \in 1..Len(above) |-> [block |-> cand[above[k]], score |-> sim[above[k]]]]

\* process_block up to and including line 209
ParProcess == ProcessCall(TranscriptOutcomes, GenOutcomes, FALSE)

\* line 210
ParAppend ==
    /\ pb_call.pc = "append"
    /\ database' = Append(database, pb_call.block)
    /\ pb_call' = Idle
    /\ UNCHANGED <<blocks, op, returned, ncalls, embed_failed, fr_call>>

\* lines 219-223: the early return, or the embeddings of the candidates
\* (one find_related call is followed from its start to its return)
ParReadEmbeddings ==
    /\ fr_call = Idle
    /\ \E target \in 1..Len(blocks), top_k \in 1..MaxTopK :
          IF ~NonEmpty(blocks[target].embedding) \/ ~NonEmpty(database)
          THEN /\ fr_call' = [pc |-> "returned", target |-> target, top_k |-> top_k,
                              began |-> blocks, db_embeddings |-> <<>>, db_blocks |-> <<>>]
               /\ returned' = <<>>
               /\ op' = NoOp("find_related", target, top_k)
          ELSE /\ fr_call' = [pc |-> "224", target |-> target, top_k |-> top_k,
                              began |-> blocks,
                              db_embeddings |-> db_embeddings(blocks, database, blocks[target]),
                              db_blocks |-> <<>>]
               /\ UNCHANGED <<returned, op>>
    /\ UNCHANGED <<blocks, database, ncalls, embed_failed, pb_call>>

\* line 224: the candidates themselves
ParReadBlocks ==
    /\ fr_call.pc = "224"
    /\ fr_call' = [fr_call EXCEPT !.pc = "226",
                                  !.db_blocks = db_blocks(blocks, database, blocks[fr_call.target])]
    /\ UNCHANGED <<blocks, database, op, returned, ncalls, embed_failed, pb_call>>

\* lines 226-247: rank and return
ParRank ==
    /\ fr_call.pc = "226"
    /\ LET target_embedding == blocks[fr_call.target].embedding
           sim == [k \in 1..Len(fr_call.db_embeddings) |->
                      cosine_similarity(target_embedding, fr_call.db_embeddings[k])]
       IN  \E order \in argsort(sim) :
              returned' = rank_candidates(target_embedding, fr_call.db_embeddings,
                                          fr_call.db_blocks, fr_call.top_k, order)
    /\ op' = NoOp("find_related", fr_call.target, fr_call.top_k)
    /\ fr_call' = [fr_call EXCEPT !.pc = "returned"]
    /\ UNCHANGED <<blocks, database, ncalls, embed_failed, pb_call>>

InitPar == InitSession(MaxParallel, 1, EmbedOutcomes)
NextPar == ParProcess \/ ParAppend \/ ParReadEmbeddings \/ ParReadBlocks \/ ParRank
SpecPar == InitPar /\ [][NextPar]_vars

\* C17: a find_related call that runs in parallel with process_block sees a
\* consistent snapshot of the corpus: it returns normally, and every pair it
\* returns carries the similarity between an embedding the target had during
\* the call and an embedding the returned block itself had during the call;
\* and no two appends are under way at once.
ConsistentSnapshot ==
    /\ fr_call.pc = "returned" =>
          /\ returned # RAISED
          /\ \A k \in 1..Len(returned) :
                LET b == returned[k].block
                IN  \E t \in {fr_call.began[fr_call.target].embedding,
                              blocks[fr_call.target].embedding} :
                    \E e \in {fr_call.began[b].embedding, blocks[b].embedding} :
                        /\ NonEmpty(t)
                        /\ NonEmpty(e)
                        /\ ScoreEq(returned[k].score, cosine_similarity(t, e))
    /\ pb_call.pc = "append" => pb_call.block \in 1..Len(blocks)

====
